---- MODULE Spec2Model ----
(***************************************************************************)
(* The DDPG agent of src/DDPG/ddpg.py (class DDPG and its training loop    *)
(* learn), with the prioritized store, the networks and the environment    *)
(* it drives.                                                              *)
(*                                                                         *)
(* Real numbers are fixed-point integers: the value 1.0 is Scale units,    *)
(* and a product is rounded to the nearest unit (fmul), as a floating      *)
(* product is rounded to the nearest representable value.                  *)
(***************************************************************************)
EXTENDS Integers, Sequences, FiniteSets, TLC

(***************************************************************************)
(* Model sizes.  The run of __main__ (lines 189-227) sets EP_LEN = 100,    *)
(* NUM_EPISODES = 30000 and MEM_SIZE = 300000; the model keeps the names   *)
(* and scales the sizes down.  EP_LEN is the module's global that line 144 *)
(* reads; epLen is the constructor's argument that line 131 reads.         *)
(***************************************************************************)
EP_LEN == 2
NUM_EPISODES == 1
MEM_SIZE == 2
\* how many times decay_epsilon is called on its own
MaxDecayCalls == 3

\* the fixed-point value of 1.0
Scale == 2 * 2

\* Python's None, and a value that is not None
None == <<>>
Some(v) == <<v>>

Abs(x) == IF x < 0 THEN -x ELSE x
Max2(a, b) == IF a > b THEN a ELSE b
Min2(a, b) == IF a < b THEN a ELSE b

\* a product of two fixed-point numbers, rounded to the nearest unit
fmul(x, y) == (2 * x * y + Scale) \div (2 * Scale)

RECURSIVE SeqSum(_)
SeqSum(q) == IF q = <<>> THEN 0 ELSE Head(q) + SeqSum(Tail(q))

RECURSIVE SeqMax(_)
SeqMax(q) == IF Len(q) = 1 THEN Head(q) ELSE Max2(Head(q), SeqMax(Tail(q)))

\* tensor.mean() of a batch of fixed-point numbers
Mean(q) == (2 * SeqSum(q) + Len(q)) \div (2 * Len(q))

(***************************************************************************)
(* Hyperparameters the constructor stores and never changes.               *)
(***************************************************************************)
actionRange == Scale
gamma == Scale - 1
tau == Scale \div 2
actorLR == Scale \div 4
criticLR == Scale \div 2
numEpisodes == NUM_EPISODES
memSize == MEM_SIZE
nActions == 1

\* the priority floor 1e-5 of line 110: the smallest positive unit
PRIO_EPS == 1

(***************************************************************************)
(* What the collaborators can return.                                      *)
(***************************************************************************)
ObsSet == {0}
RmsSet == {1}
RewardSet == {Scale}
NoiseSet == {-4 * Scale, 4 * Scale}
EpLens == {EP_LEN - 1, EP_LEN, EP_LEN + 1}
BatchSizes == 2 .. (MEM_SIZE + 1)

VARIABLES
    \* DDPG fields
    actor, critic, targetActor, targetCritic,
    epsilon, epsDecay, epsEnd,
    memory, batchSize, epLen,
    \* locals of learn
    pc, episode, t, state, action, nextState, reward, done,
    episode_reward, initial, lowest, current, td,
    \* what learn has printed, the exception that ended it, decay calls made
    printed, err, nDecay

agentVars == <<actor, critic, targetActor, targetCritic, epsilon, epsDecay, epsEnd,
               memory, batchSize, epLen>>
learnVars == <<pc, episode, t, state, action, nextState, reward, done,
               episode_reward, initial, lowest, current, td>>
outVars == <<printed, err, nDecay>>
vars == <<agentVars, learnVars, outVars>>

(***************************************************************************)
(* models.Actor and models.Critic: function approximators, one parameter.  *)
(***************************************************************************)
Actor(theta, s) == [i \in 1 .. nActions |-> theta + s]
Critic(theta, s, a) == fmul(theta, SeqSum(a)) + s

Sign(x) == IF x > 0 THEN 1 ELSE IF x < 0 THEN -1 ELSE 0

\* torch.optim.Adam.step(): the parameter moves by the learning rate against the
\* gradient's sign.  grads holds the sign of each sample's share of the gradient;
\* the positive weights of the samples decide between shares of opposite sign.
OptStep(theta, lr, grads) ==
    LET signs == {Sign(grads[k]) : k \in 1 .. Len(grads)} \ {0}
    IN  IF signs = {} THEN {theta} ELSE {theta - lr * g : g \in signs}

(***************************************************************************)
(* memory.NaivePrioritizedBuffer                                           *)
(***************************************************************************)
EmptyMemory == [buffer |-> <<>>, priorities |-> <<>>, pos |-> 0]

push(m, e) ==
    LET max_prio == IF m.buffer = <<>> THEN Scale ELSE SeqMax(m.priorities)
    IN  IF Len(m.buffer) < memSize
        THEN [buffer |-> Append(m.buffer, e),
              priorities |-> Append(m.priorities, max_prio),
              pos |-> (m.pos + 1) % memSize]
        ELSE [buffer |-> [m.buffer EXCEPT ![m.pos + 1] = e],
              priorities |-> [m.priorities EXCEPT ![m.pos + 1] = max_prio],
              pos |-> (m.pos + 1) % memSize]

can_provide_sample(m, n) == Len(m.buffer) >= n

\* the index vectors sample(n) can draw: every stored entry has positive probability
sample(m, n) == [1 .. n -> 1 .. Len(m.buffer)]

RECURSIVE update_priorities(_, _, _)
update_priorities(m, idx, p) ==
    IF idx = <<>> THEN m
    ELSE update_priorities(
            [m EXCEPT !.priorities[Head(idx)] = Abs(Head(p)) + PRIO_EPS],
            Tail(idx), Tail(p))

(***************************************************************************)
(* DDPG.__init__                                                           *)
(***************************************************************************)
Transition(s, a, r, s_, d) == [s |-> s, a |-> a, r |-> r, s_ |-> s_, done |-> d]

NoTransition == Transition(0, [i \in 1 .. nActions |-> 0], 0, 0, 0)

Init ==
    /\ actor = 0
    /\ critic = 0
    /\ targetActor = actor
    /\ targetCritic = critic
    /\ epsilon = Scale - 1
    /\ epsDecay = Scale - 1
    /\ epsEnd = 1
    /\ memory = EmptyMemory
    /\ batchSize \in BatchSizes
    /\ epLen \in EpLens
    /\ pc = "reset"
    /\ episode = 0
    /\ t = 0
    /\ state = 0
    /\ action = NoTransition.a
    /\ nextState = 0
    /\ reward = 0
    /\ done = 0
    /\ episode_reward = 0
    /\ initial = 0
    /\ lowest = 0
    /\ current = 0
    /\ td = None
    /\ printed = <<>>
    /\ err = "none"
    /\ nDecay = 0

(***************************************************************************)
(* DDPG.select_action                                                      *)
(***************************************************************************)
clamp_upper(x, lo, hi) == Min2(x, hi)
clamp(x, lo, hi) == Min2(Max2(x, lo), hi)

select_action(tActor, s, noise) ==
    [i \in 1 .. nActions |-> clamp(Actor(tActor, s)[i] + noise[i], -actionRange, actionRange)]

\* np.random.normal(0, epsilon, nActions)
NoiseDraws(eps) == IF eps = 0 THEN [1 .. nActions -> {0}] ELSE [1 .. nActions -> NoiseSet]

(***************************************************************************)
(* DDPG.soft_update                                                        *)
(***************************************************************************)
soft_update(target, source) == fmul(target, Scale - tau) + fmul(source, tau)

(***************************************************************************)
(* DDPG.decay_epsilon                                                      *)
(***************************************************************************)
decay_epsilon_nofloor(eps, decay, floor) == fmul(eps, decay)
decay_epsilon_grow(eps, decay, floor) == Max2(fmul(eps, 2 * Scale - decay), floor)
decay_epsilon(eps, decay, floor) == Max2(fmul(eps, decay), floor)

(***************************************************************************)
(* DDPG.optimize_model                                                     *)
(***************************************************************************)
Batch(m, idx) == [k \in 1 .. Len(idx) |-> m.buffer[idx[k]]]

\* lines 88-89
TargetQ(tCritic, tActor, e) ==
    e.r + fmul((Scale - e.done * Scale), fmul(gamma, Critic(tCritic, e.s_, Actor(tActor, e.s_))))

\* line 93
CurrentQ(c, e) == Critic(c, e.s, e.a)

\* line 100: the critic whose value the actor loss takes, of the critic
\* before (pre) and after (post) criticOpt.step()
ActorLossCritic_pre(pre, post) == pre
ActorLossCritic(pre, post) == post

\* lines 105-106: the online parameters the soft update reads, of the
\* parameters before (pre) and after (post) the optimizer steps
SoftSource_pre(pre, post) == pre
SoftSource(pre, post) == post

\* line 93 against line 96: the critic that current_q is computed with
CurrentQCritic_post(pre, post) == post
CurrentQCritic(pre, post) == pre

\* lines 92-96: the smooth L1 loss falls as current_q moves towards target_q
CriticStep(c, tCritic, tActor, batch) ==
    OptStep(c, criticLR,
            [k \in 1 .. Len(batch) |->
                (CurrentQ(c, batch[k]) - TargetQ(tCritic, tActor, batch[k]))
                    * SeqSum(batch[k].a)])

\* lines 99-102: the loss -critic(s, actor(s)) falls as the critic's value rises
ActorStep(a, c, batch) ==
    OptStep(a, actorLR, [k \in 1 .. Len(batch) |-> -c])

\* line 110
NewPriority(tdi) == tdi + PRIO_EPS

\* line 81
MayOptimize_always(m, n) == TRUE
MayOptimize(m, n) == can_provide_sample(m, n)

optimize_model ==
    IF MayOptimize(memory, batchSize)
    THEN IF ~can_provide_sample(memory, batchSize)
         THEN \* memory.sample raises
              /\ err' = "InsufficientData"
              /\ td' = None
              /\ UNCHANGED agentVars
         ELSE
         \E idx \in sample(memory, batchSize) :
         \E critic1 \in CriticStep(critic, targetCritic, targetActor, Batch(memory, idx)) :
         \E actor1 \in ActorStep(actor, ActorLossCritic(critic, critic1), Batch(memory, idx)) :
            LET batch == Batch(memory, idx)
                target_q == [k \in 1 .. batchSize |-> TargetQ(targetCritic, targetActor, batch[k])]
                current_q == [k \in 1 .. batchSize |->
                                 CurrentQ(CurrentQCritic(critic, critic1), batch[k])]
                tdv == [k \in 1 .. batchSize |-> Abs(target_q[k] - current_q[k])]
                newp == [k \in 1 .. batchSize |-> NewPriority(tdv[k])]
            IN  /\ critic' = critic1
                /\ actor' = actor1
                /\ targetActor' = soft_update(targetActor, SoftSource(actor, actor1))
                /\ targetCritic' = soft_update(targetCritic, SoftSource(critic, critic1))
                /\ memory' = update_priorities(memory, idx, newp)
                /\ td' = Some(Mean(tdv))
                /\ UNCHANGED <<epsilon, epsDecay, epsEnd, batchSize, epLen, err>>
    ELSE /\ td' = None
         /\ UNCHANGED <<agentVars, err>>

(***************************************************************************)
(* DDPG.learn, one action per block of its loop                            *)
(***************************************************************************)
\* lines 121-129
learn_reset ==
    /\ pc = "reset"
    /\ \E s0 \in ObsSet, rms \in RmsSet :
        /\ state' = s0
        /\ initial' = rms
        /\ lowest' = rms
    /\ episode_reward' = 0
    /\ t' = 0
    /\ pc' = "select"
    /\ UNCHANGED <<agentVars, outVars, episode, action, nextState, reward,
                   done, current, td>>

\* line 134
learn_select ==
    /\ pc = "select"
    /\ \E noise \in NoiseDraws(epsilon) :
        action' = select_action(targetActor, state, noise)
    /\ pc' = "step"
    /\ UNCHANGED <<agentVars, outVars, episode, t, state, nextState, reward,
                   done, episode_reward, initial, lowest, current, td>>

\* lines 144-147
Terminal_env(tick, envDone) == IF envDone = 1 \/ tick = EP_LEN - 1 THEN 1 ELSE 0
\* envDone is what env.step returned; lines 144-147 overwrite it
Terminal(tick, envDone) == IF tick = EP_LEN - 1 THEN 1 ELSE 0

\* lines 135-141
learn_step ==
    /\ pc = "step"
    /\ \E s1 \in ObsSet, rms \in RmsSet, rew \in RewardSet, d \in {0, 1} :
        /\ nextState' = s1
        /\ reward' = rew
        /\ done' = d
        /\ episode_reward' = episode_reward + rew
        /\ current' = rms
        /\ lowest' = IF rms < lowest THEN rms ELSE lowest
    /\ pc' = "push"
    /\ UNCHANGED <<agentVars, outVars, episode, t, state, action, initial, td>>

\* lines 144-155
learn_push ==
    /\ pc = "push"
    /\ done' = Terminal(t, done)
    /\ memory' = push(memory, Transition(state, action, reward, nextState, Terminal(t, done)))
    /\ pc' = "optimize"
    /\ UNCHANGED <<actor, critic, targetActor, targetCritic, epsilon, epsDecay, epsEnd,
                   batchSize, epLen, outVars, episode, t, state, action, nextState,
                   reward, episode_reward, initial, lowest, current, td>>

\* line 158
learn_optimize ==
    /\ pc = "optimize"
    /\ optimize_model
    /\ pc' = IF err' = "none" THEN "loop_end" ELSE "raised"
    /\ UNCHANGED <<episode, t, state, action, nextState, reward, done, episode_reward,
                   initial, lowest, current, printed, nDecay>>

\* lines 131, 160-164
learn_loop_end ==
    /\ pc = "loop_end"
    /\ IF done = 1
       THEN /\ pc' = "summary"
            /\ UNCHANGED <<state, t>>
       ELSE /\ state' = nextState
            /\ IF t + 1 < epLen
               THEN t' = t + 1 /\ pc' = "select"
               ELSE t' = t /\ pc' = "summary"
    /\ UNCHANGED <<agentVars, outVars, episode, action, nextState, reward,
                   done, episode_reward, initial, lowest, current, td>>

\* lines 167-183: round(td, 2) raises TypeError when td is None
learn_summary ==
    /\ pc = "summary"
    /\ IF td = None
       THEN /\ err' = "TypeError"
            /\ pc' = "raised"
            /\ UNCHANGED printed
       ELSE /\ printed' = Append(printed,
                        [episode |-> episode, initial |-> initial, lowest |-> lowest,
                         final |-> current, score |-> episode_reward, td |-> td[1],
                         epsilon |-> epsilon])
            /\ pc' = "decay"
            /\ err' = err
    /\ UNCHANGED <<agentVars, nDecay, episode, t, state, action, nextState,
                   reward, done, episode_reward, initial, lowest, current, td>>

\* line 186, and the next turn of the loop of line 121
learn_decay ==
    /\ pc = "decay"
    /\ epsilon' = decay_epsilon(epsilon, epsDecay, epsEnd)
    /\ nDecay' = nDecay + 1
    /\ episode' = episode + 1
    /\ pc' = IF episode + 1 < numEpisodes THEN "reset" ELSE "done"
    /\ UNCHANGED <<actor, critic, targetActor, targetCritic, epsDecay, epsEnd, memory,
                   batchSize, epLen, printed, err, t, state, action,
                   nextState, reward, done, episode_reward, initial, lowest, current, td>>

Next ==
    \/ learn_reset
    \/ learn_select
    \/ learn_step
    \/ learn_push
    \/ learn_optimize
    \/ learn_loop_end
    \/ learn_summary
    \/ learn_decay

Spec == Init /\ [][Next]_vars

(***************************************************************************)
(* decay_epsilon on its own: an agent constructed with any exploration     *)
(* scale, decay factor and floor, and decay_epsilon called on it.          *)
(***************************************************************************)
EpsilonSet == {-Scale, -1, 0, 1, 2, Scale - 1, Scale, 2 * Scale}
EpsDecaySet == {1, Scale \div 2, Scale - 1, Scale, Scale + 2, 2 * Scale}
EpsEndSet == {-2, 0, 1, 2}

InitDecay ==
    /\ actor = 0
    /\ critic = 0
    /\ targetActor = actor
    /\ targetCritic = critic
    /\ epsilon \in EpsilonSet
    /\ epsDecay \in EpsDecaySet
    /\ epsEnd \in EpsEndSet
    /\ memory = EmptyMemory
    /\ batchSize = 2
    /\ epLen = EP_LEN
    /\ pc = "idle"
    /\ episode = 0
    /\ t = 0
    /\ state = 0
    /\ action = NoTransition.a
    /\ nextState = 0
    /\ reward = 0
    /\ done = 0
    /\ episode_reward = 0
    /\ initial = 0
    /\ lowest = 0
    /\ current = 0
    /\ td = None
    /\ printed = <<>>
    /\ err = "none"
    /\ nDecay = 0

call_decay_epsilon ==
    /\ pc = "idle"
    /\ nDecay < MaxDecayCalls
    /\ epsilon' = decay_epsilon(epsilon, epsDecay, epsEnd)
    /\ nDecay' = nDecay + 1
    /\ UNCHANGED <<actor, critic, targetActor, targetCritic, epsDecay, epsEnd, memory,
                   batchSize, epLen, learnVars, printed, err>>

NextDecay == call_decay_epsilon

SpecDecay == InitDecay /\ [][NextDecay]_vars

(***************************************************************************)
(* The claims                                                              *)
(***************************************************************************)
\* the Transition the last push stored
LastPushed(m) == m.buffer[((m.pos + memSize - 1) % memSize) + 1]

\* the batch an update draws with the index vector idx, and what it computes
\* from the parameters it starts with
PreTarget(idx, k) == TargetQ(targetCritic, targetActor, Batch(memory, idx)[k])
PreCurrent(idx, k) == CurrentQ(critic, Batch(memory, idx)[k])

Updates == pc = "optimize" /\ can_provide_sample(memory, batchSize)
Skips == pc = "optimize" /\ ~can_provide_sample(memory, batchSize)

\* C1 (as stated): in every episode, when the environment does not signal
\* termination, the epLen-th Transition pushed has done = 1 and the episode
\* ends with it, having pushed epLen Transitions.
C1_EpLenthIsTerminal ==
    [][ /\ (pc = "push" /\ done = 0 /\ t = epLen - 1)
            => (done' = 1 /\ LastPushed(memory').done = 1)
        /\ (pc = "loop_end" /\ pc' = "summary") => t + 1 = epLen ]_vars

\* C2: when the store cannot provide batchSize entries, optimize_model changes
\* no network and no stored priority or Transition, raises nothing and
\* returns None.
C2_SkipIsNoOp ==
    [][ Skips => /\ UNCHANGED <<actor, critic, targetActor, targetCritic, memory>>
                 /\ td' = None
                 /\ err' = "none"
                 /\ pc' = "loop_end" ]_vars

C2_Witness ==
    /\ pc = "loop_end"
    /\ td = None
    /\ Len(memory.buffer) >= 1
    /\ Len(memory.buffer) < batchSize

\* C3 (as stated): learn prints one summary for every episode whose loop has
\* ended, in the order of the episodes, and no exception ends it.
C3_SummaryEveryEpisode ==
    /\ err = "none"
    /\ pc = "decay" => Len(printed) = episode + 1 /\ printed[episode + 1].episode = episode
    /\ pc \in {"reset", "done"} => Len(printed) = episode

\* C4: after one or more decay_epsilon calls, epsilon is at least epsEnd.
C4_EpsilonFloor == nDecay >= 1 => epsilon >= epsEnd

C4_Witness == nDecay >= 2 /\ epsilon = epsEnd /\ epsDecay < Scale /\ epsEnd > 0

InUnitInterval(d) == d > 0 /\ d <= Scale

InRange(a) == \A i \in 1 .. nActions : -actionRange <= a[i] /\ a[i] <= actionRange

C6_ActionClamped ==
    /\ InRange(action)
    /\ \A k \in 1 .. Len(memory.buffer) : InRange(memory.buffer[k].a)

C6_Witness ==
    /\ pc = "step"
    /\ \E i \in 1 .. nActions : action[i] = -actionRange
    /\ \E k \in 1 .. Len(memory.buffer) : \E i \in 1 .. nActions :
          memory.buffer[k].a[i] = actionRange

\* C7: an optimize_model call that updates sets each target to the soft update
\* of its old value and the online network as the two optimizer steps left it;
\* every other step leaves both targets as they are.
C7_TargetsOnlySoftUpdated ==
    [][ IF Updates
        THEN /\ targetActor' = soft_update(targetActor, actor')
             /\ targetCritic' = soft_update(targetCritic, critic')
        ELSE UNCHANGED <<targetActor, targetCritic>> ]_vars

C7_Witness ==
    /\ pc = "loop_end"
    /\ td # None
    /\ targetActor # 0
    /\ targetCritic # 0
    /\ targetCritic # critic

\* C8: an optimize_model call that updates passes, for each sampled index k,
\* the priority |target_q[k] - current_q[k]| + 1e-5, with target_q from the
\* targets before the soft update and current_q from the critic before its
\* step; every sampled index ends with a priority of at least 1e-5.
C8_PriorityFromPreUpdateTd ==
    [][ Updates =>
          \E idx \in sample(memory, batchSize) :
            /\ memory' = update_priorities(memory, idx,
                            [k \in 1 .. batchSize |->
                                Abs(PreTarget(idx, k) - PreCurrent(idx, k)) + PRIO_EPS])
            /\ \A k \in 1 .. batchSize : memory'.priorities[idx[k]] >= PRIO_EPS ]_vars

C8_Witness ==
    /\ pc = "loop_end"
    /\ td # None
    /\ critic # 0
    /\ \E k \in 1 .. Len(memory.priorities) : memory.priorities[k] # Scale

\* C9: in an optimize_model call that updates, the critic takes its step from
\* the parameters the call started with, and the actor then takes its step
\* down the loss evaluated with the critic as that step left it.
C9_ActorLossUsesSteppedCritic ==
    [][ Updates =>
          \E idx \in sample(memory, batchSize) :
            /\ critic' \in CriticStep(critic, targetCritic, targetActor, Batch(memory, idx))
            /\ actor' \in ActorStep(actor, critic', Batch(memory, idx)) ]_vars

C9_Witness ==
    /\ pc = "loop_end"
    /\ td # None
    /\ critic # 0
    /\ actor # 0

\* C10: whatever env.step returns as done, the flag stored with a Transition
\* is 1 only on the tick that ends the episode and 0 on every tick before it,
\* the loop leaves only on the stored flag or at the end of its range, and
\* the episode pushes as many Transitions as it would if the environment
\* never signalled termination.
TicksPerEpisode == Min2(epLen, EP_LEN)

C10_EnvDoneIgnored ==
    [][ /\ pc = "push" =>
            /\ done' \in {0, 1}
            /\ done' = 1 => t + 1 = TicksPerEpisode
            /\ t + 1 < TicksPerEpisode => done' = 0
            /\ LastPushed(memory').done = done'
        /\ pc = "loop_end" =>
            /\ (done = 1 \/ t + 1 >= epLen) => pc' = "summary"
            /\ pc' = "summary" => t + 1 = TicksPerEpisode ]_vars

C10_Witness ==
    /\ pc = "push"
    /\ done = 1
    /\ t + 1 < TicksPerEpisode

====
